---- MODULE Spec2Model ----
(***************************************************************************)
(* Model of the DataTableColumn header cell                                *)
(* (src/data-table/lib/data-table-column.ts): its reactive properties, the *)
(* update cycle that recomputes withSortButton, the rendered affordances,  *)
(* the checkbox slot wiring and the notifications the handlers dispatch.   *)
(***************************************************************************)
EXTENDS Naturals, Sequences, FiniteSets, TLC

VARIABLES
  type,                 \* '' | 'numeric' | 'checkbox'
  sortable,
  sorted,
  sortedDescending,
  withSortButton,
  filterable,
  filterCaseSensitive,
  changedProperties,    \* keys of the element's pending PropertyValues map
  isUpdatePending,      \* an update cycle is scheduled
  dom,                  \* what the last render left in the shadow root
  slotted,              \* owner-supplied elements assigned to the checkbox slot
  changeListeners,      \* elements carrying onCheckboxClicked via addEventListener
  checkboxChecked,      \* the checked value each checkbox element reports
  emitted               \* the events dispatched so far, oldest first

vars == <<type, sortable, sorted, sortedDescending, withSortButton, filterable,
          filterCaseSensitive, changedProperties, isUpdatePending, dom,
          slotted, changeListeners, checkboxChecked, emitted>>

props == <<type, sortable, sorted, sortedDescending, withSortButton, filterable,
           filterCaseSensitive>>

----------------------------------------------------------------------------
(* Bounds of the model. *)

\* The longest record of dispatched events that is kept.
MaxEmitted == 2

----------------------------------------------------------------------------
(* Value domains. *)

TypeValues == {"", "numeric", "checkbox"}

PropertyNames == {"type", "sortable", "sorted", "sortedDescending",
                  "withSortButton", "filterable", "filterCaseSensitive"}

\* The default checkbox of the template, and the elements an owner may supply.
DefaultCheckbox == "md-checkbox"
OwnerCheckboxes == {"cb1", "cb2"}
Checkboxes == OwnerCheckboxes \cup {DefaultCheckbox}

\* What a checkbox may report as its checked value.
CheckedValues == {"true", "false", "undefined"}

\* Values of the filter text field, and keys pressed in it.
TextValues == {"abc", "ABC"}
KeyValues == {"Enter"}

\* The first render has not happened: the shadow root is empty.
EmptyDom == [checkbox |-> FALSE, filter |-> FALSE, sortButton |-> FALSE,
             hidden |-> FALSE, selected |-> FALSE, committedSelected |-> FALSE]

----------------------------------------------------------------------------
(* Reactive properties: a write is recorded, and an update scheduled, only *)
(* when the value differs from the old one.                                *)

hasChanged(value, old) == value # old

\* The keys of the PropertyValues map after the setter of `name` has run.
requestUpdate(changed, name, value, old) ==
  IF hasChanged(value, old) THEN changed \cup {name} ELSE changed

\* A setter that records a change schedules an update cycle.
setProperty(name, value, old) ==
  /\ changedProperties' = requestUpdate(changedProperties, name, value, old)
  /\ isUpdatePending' = (isUpdatePending \/ hasChanged(value, old))

\* The value passed on as it is.
coalesceNothing(a, b) == a

\* The value of (a ?? b): b stands in for an undefined or null a.
coalesce(a, b) == IF a \in {"undefined", "null"} THEN b ELSE a

----------------------------------------------------------------------------
(* Events.  new CustomEvent(name, {detail}) neither bubbles nor is         *)
(* composed; dispatchEvent is called on the handler's `this`.              *)

CustomEvent(name, detail) == [name |-> name, bubbles |-> FALSE, detail |-> detail]

dispatchEvent(this, event) ==
  [name |-> event.name, target |-> this, bubbles |-> event.bubbles,
   detail |-> event.detail]

----------------------------------------------------------------------------
(* Rendering. *)

\* The checkbox left out of a filterable column.
renderCheckboxUnlessFilterable == type = "checkbox" /\ ~filterable

renderCheckbox == type = "checkbox"

\* The filter field rendered whatever the type.
renderFilterTextFieldAnyType == filterable

renderFilterTextField == filterable /\ type # "checkbox"

\* The sort toggle is in the template iff the column is sortable; its
\* bindings are ?selected and ?hidden.
renderSlot ==
  [sortButton |-> sortable,
   selected   |-> sortable /\ sortedDescending,
   hidden     |-> sortable /\ ~withSortButton]

\* The template's values are committed to the shadow root.  A binding is
\* written only when its value differs from the one committed last; a
\* toggle that was not there before is created with the template's values.
render ==
  LET t == renderSlot
      fresh == ~dom.sortButton
      write == fresh \/ t.selected # dom.committedSelected
  IN [checkbox   |-> renderCheckbox,
      filter     |-> renderFilterTextField,
      sortButton |-> t.sortButton,
      hidden     |-> t.hidden,
      selected   |-> IF ~t.sortButton THEN FALSE
                     ELSE IF write THEN t.selected ELSE dom.selected,
      committedSelected |-> t.selected]

----------------------------------------------------------------------------
(* The state after construction: the field initialisers have run through   *)
(* the setters (every property is recorded as changed from undefined), the *)
(* first update is pending and nothing is rendered.                        *)

Init ==
  /\ type = ""
  /\ sortable = FALSE
  /\ sorted = FALSE
  /\ sortedDescending = FALSE
  /\ withSortButton = FALSE
  /\ filterable = FALSE
  /\ filterCaseSensitive = FALSE
  /\ changedProperties = PropertyNames
  /\ isUpdatePending = TRUE
  /\ dom = EmptyDom
  /\ slotted = <<>>
  /\ changeListeners = {}
  /\ checkboxChecked = [c \in Checkboxes |-> "false"]
  /\ emitted = <<>>

----------------------------------------------------------------------------
(* Property writes by the owner. *)

SetType(v) ==
  /\ type' = v
  /\ setProperty("type", v, type)
  /\ UNCHANGED <<sortable, sorted, sortedDescending, withSortButton, filterable,
                 filterCaseSensitive, dom, slotted, changeListeners, checkboxChecked, emitted>>

SetSortable(v) ==
  /\ sortable' = v
  /\ setProperty("sortable", v, sortable)
  /\ UNCHANGED <<type, sorted, sortedDescending, withSortButton, filterable,
                 filterCaseSensitive, dom, slotted, changeListeners, checkboxChecked, emitted>>

SetSorted(v) ==
  /\ sorted' = v
  /\ setProperty("sorted", v, sorted)
  /\ UNCHANGED <<type, sortable, sortedDescending, withSortButton, filterable,
                 filterCaseSensitive, dom, slotted, changeListeners, checkboxChecked, emitted>>

SetSortedDescending(v) ==
  /\ sortedDescending' = v
  /\ setProperty("sortedDescending", v, sortedDescending)
  /\ UNCHANGED <<type, sortable, sorted, withSortButton, filterable,
                 filterCaseSensitive, dom, slotted, changeListeners, checkboxChecked, emitted>>

SetWithSortButton(v) ==
  /\ withSortButton' = v
  /\ setProperty("withSortButton", v, withSortButton)
  /\ UNCHANGED <<type, sortable, sorted, sortedDescending, filterable,
                 filterCaseSensitive, dom, slotted, changeListeners, checkboxChecked, emitted>>

SetFilterable(v) ==
  /\ filterable' = v
  /\ setProperty("filterable", v, filterable)
  /\ UNCHANGED <<type, sortable, sorted, sortedDescending, withSortButton,
                 filterCaseSensitive, dom, slotted, changeListeners, checkboxChecked, emitted>>

SetFilterCaseSensitive(v) ==
  /\ filterCaseSensitive' = v
  /\ setProperty("filterCaseSensitive", v, filterCaseSensitive)
  /\ UNCHANGED <<type, sortable, sorted, sortedDescending, withSortButton,
                 filterable, dom, slotted, changeListeners, checkboxChecked, emitted>>

----------------------------------------------------------------------------
(* Clicks. *)

\* The elements a click on `target` bubbles through, innermost first.
clickPath(target) ==
  IF target = "sortButton" THEN <<"sortButton", "column">> ELSE <<"column">>

\* A toggle without the click listener.
stopsNoPropagation(node) == FALSE

\* The toggle's own click listener stops the propagation.
stopsPropagation(node) == node = "sortButton"

\* Whether a click on `target` is delivered to the listener on the column.
clickReachesColumn(target) ==
  LET path == clickPath(target)
  IN \E i \in 1..Len(path) :
       /\ path[i] = "column"
       /\ \A j \in 1..(i - 1) : ~stopsPropagation(path[j])

\* The listener the constructor adds to the column.
onClick == ~withSortButton

\* A click on the header outside the sort toggle.
HeaderClick ==
  /\ clickReachesColumn("header")
  /\ withSortButton' = onClick
  /\ setProperty("withSortButton", onClick, withSortButton)
  /\ UNCHANGED <<type, sortable, sorted, sortedDescending, filterable,
                 filterCaseSensitive, dom, slotted, changeListeners, checkboxChecked, emitted>>

\* The sort event built before the property is written.
onSortButtonClickedBeforeWrite(selected) ==
  [sortedDescending |-> selected,
   event |-> dispatchEvent("column",
               CustomEvent("sort", [column |-> "column",
                                    isDescending |-> sortedDescending]))]

\* this.sortedDescending = e.detail.selected, then the sort event carries
\* the property as read back.
onSortButtonClicked(selected) ==
  LET written == selected
  IN [sortedDescending |-> written,
      event |-> dispatchEvent("column",
                  CustomEvent("sort", [column |-> "column",
                                       isDescending |-> written]))]

\* A click on the visible sort toggle: the toggle flips its pressed state
\* and reports it (icon-button-toggle-change), then the click bubbles.
SortButtonClick ==
  /\ dom.sortButton /\ ~dom.hidden
  /\ Len(emitted) < MaxEmitted
  /\ LET pressed == ~dom.selected
         h == onSortButtonClicked(pressed)
         reaches == clickReachesColumn("sortButton")
         wsb == IF reaches THEN onClick ELSE withSortButton
         c1 == requestUpdate(changedProperties, "sortedDescending",
                             h.sortedDescending, sortedDescending)
     IN /\ dom' = [dom EXCEPT !.selected = pressed]
        /\ sortedDescending' = h.sortedDescending
        /\ emitted' = Append(emitted, h.event)
        /\ withSortButton' = wsb
        /\ changedProperties' =
             requestUpdate(c1, "withSortButton", wsb, withSortButton)
        /\ isUpdatePending' =
             (\/ isUpdatePending
              \/ hasChanged(h.sortedDescending, sortedDescending)
              \/ hasChanged(wsb, withSortButton))
  /\ UNCHANGED <<type, sortable, sorted, filterable, filterCaseSensitive,
                 slotted, changeListeners, checkboxChecked>>

----------------------------------------------------------------------------
(* The checkbox slot. *)

\* What the owner may assign to the checkbox slot: its elements in order.
SlotContents ==
  {<<>>} \cup {<<c>> : c \in OwnerCheckboxes}
         \cup {p \in OwnerCheckboxes \X OwnerCheckboxes : p[1] # p[2]}

\* The flattened assigned elements of the slot: none while the slot is not
\* rendered, the fallback content while nothing is assigned.
checkboxSlotElements(d, s) ==
  IF ~d.checkbox THEN <<>>
  ELSE IF s = <<>> THEN <<DefaultCheckbox>> ELSE s

checkbox(d, s) ==
  IF checkboxSlotElements(d, s) = <<>> THEN "undefined"
  ELSE checkboxSlotElements(d, s)[1]

\* removeEventListener, then addEventListener, both on this.checkbox as it
\* is when the handler runs; neither does anything when it is undefined.
onCheckboxSlotChanged(listeners, d, s) ==
  LET cb == checkbox(d, s)
      removed == IF cb = "undefined" THEN listeners ELSE listeners \ {cb}
  IN IF cb = "undefined" THEN removed ELSE removed \cup {cb}

\* The owner changes what is assigned to the checkbox slot; a rendered slot
\* reports the change.
AssignCheckboxSlot(s) ==
  /\ s # slotted
  /\ slotted' = s
  /\ changeListeners' =
       IF dom.checkbox THEN onCheckboxSlotChanged(changeListeners, dom, s)
       ELSE changeListeners
  /\ UNCHANGED <<props, changedProperties, isUpdatePending, dom,
                 checkboxChecked, emitted>>

\* The handler run for a change event whose target is checkbox `target`,
\* with `this` the object the handler is called on.
onCheckboxClicked(this, target) ==
  dispatchEvent(this,
    CustomEvent("checked", [checked |-> coalesce(checkboxChecked'[target], "false")]))

\* The listeners a change event on checkbox c runs, as the `this` each is
\* called with, in the order they were added: the template's @change on the
\* default checkbox is bound to the column; a listener added with
\* addEventListener is called on the element it was added to.
changeHandlers(c) ==
  (IF c = DefaultCheckbox THEN <<"column">> ELSE <<>>)
    \o (IF c \in changeListeners THEN <<c>> ELSE <<>>)

\* Checkbox c takes the given checked value and reports the change.  The
\* default checkbox can be used while it is shown: the slot is rendered and
\* nothing is assigned to it.
CheckboxChange(c, checked) ==
  /\ c = DefaultCheckbox => dom.checkbox /\ slotted = <<>>
  /\ checkboxChecked' = [checkboxChecked EXCEPT ![c] = checked]
  /\ LET hs == changeHandlers(c)
     IN /\ Len(emitted) + Len(hs) <= MaxEmitted
        /\ emitted' = emitted \o [i \in 1..Len(hs) |-> onCheckboxClicked(hs[i], c)]
  /\ UNCHANGED <<props, changedProperties, isUpdatePending, dom, slotted,
                 changeListeners>>

----------------------------------------------------------------------------
(* The default filter text field. *)

\* The filter event carrying the case sensitivity the field was rendered
\* under: a write not yet rendered is not seen.
onFilterTextFieldInputAsRendered(text) ==
  dispatchEvent("column",
    CustomEvent("filter", [field |-> "md-outlined-text-field", text |-> text,
                           column |-> "column",
                           caseSensitive |->
                             IF "filterCaseSensitive" \in changedProperties
                               THEN ~filterCaseSensitive
                               ELSE filterCaseSensitive]))

onFilterTextFieldInput(text) ==
  dispatchEvent("column",
    CustomEvent("filter", [field |-> "md-outlined-text-field", text |-> text,
                           column |-> "column",
                           caseSensitive |-> filterCaseSensitive]))

onFilterTextFieldKeyDown(key) ==
  dispatchEvent("column",
    CustomEvent("keydown", [field |-> "md-outlined-text-field", key |-> key,
                            column |-> "column"]))

FilterInput(text) ==
  /\ dom.filter
  /\ Len(emitted) < MaxEmitted
  /\ emitted' = Append(emitted, onFilterTextFieldInput(text))
  /\ UNCHANGED <<props, changedProperties, isUpdatePending, dom, slotted,
                 changeListeners, checkboxChecked>>

FilterKeyDown(key) ==
  /\ dom.filter
  /\ Len(emitted) < MaxEmitted
  /\ emitted' = Append(emitted, onFilterTextFieldKeyDown(key))
  /\ UNCHANGED <<props, changedProperties, isUpdatePending, dom, slotted,
                 changeListeners, checkboxChecked>>

----------------------------------------------------------------------------
(* The update cycle. *)

\* updated() recomputing from sorted alone.
updatedFromSortedAlone(changed) ==
  [withSortButton |-> IF "sorted" \in changed THEN sorted ELSE withSortButton,
   dispatched |-> <<>>]

\* updated() announcing the sort state when sorted has changed.
updatedDispatchingSort(changed) ==
  [withSortButton |-> IF "sorted" \in changed THEN sortable /\ sorted
                      ELSE withSortButton,
   dispatched |-> IF "sorted" \in changed
                    THEN <<dispatchEvent("column",
                             CustomEvent("sort", [column |-> "column",
                                                  isDescending |-> sortedDescending]))>>
                    ELSE <<>>]

\* updated() leaving alone a withSortButton written in the same batch.
updatedKeepingWrittenFlag(changed) ==
  [withSortButton |-> IF "sorted" \in changed /\ "withSortButton" \notin changed
                        THEN sortable /\ sorted
                        ELSE withSortButton,
   dispatched |-> <<>>]

\* updated() keyed on a change of sortable.
updatedOnSortableChange(changed) ==
  [withSortButton |-> IF "sortable" \in changed THEN sortable /\ sorted
                      ELSE withSortButton,
   dispatched |-> <<>>]

\* updated() keyed on a change of withSortButton.
updatedOnFlagChange(changed) ==
  [withSortButton |-> IF "withSortButton" \in changed THEN sortable /\ sorted
                      ELSE withSortButton,
   dispatched |-> <<>>]

\* What updated() does, given the changed keys of the cycle: the value it
\* leaves in withSortButton, and the events it dispatches (none).
updated(changed) ==
  [withSortButton |-> IF "sorted" \in changed THEN sortable /\ sorted
                      ELSE withSortButton,
   dispatched |-> <<>>]

\* One update cycle: render with the current values, clear the changed
\* keys, then updated() with the keys of this cycle.  A slot that the render
\* creates with elements assigned reports a slot change; a default checkbox
\* that the render removes is gone with its listeners.
PerformUpdate ==
  /\ isUpdatePending
  /\ LET u == updated(changedProperties)
         wsb == u.withSortButton
     IN /\ dom' = render
        /\ emitted' = emitted \o u.dispatched
        /\ withSortButton' = wsb
        /\ changedProperties' = requestUpdate({}, "withSortButton", wsb, withSortButton)
        /\ isUpdatePending' = hasChanged(wsb, withSortButton)
        /\ changeListeners' =
             IF ~dom.checkbox /\ render.checkbox /\ slotted # <<>>
               THEN onCheckboxSlotChanged(changeListeners, render, slotted)
             ELSE IF dom.checkbox /\ ~render.checkbox
               THEN changeListeners \ {DefaultCheckbox}
             ELSE changeListeners
  /\ UNCHANGED <<type, sortable, sorted, sortedDescending, filterable,
                 filterCaseSensitive, slotted, checkboxChecked>>

----------------------------------------------------------------------------

\* The sort state machine and the rendering: every property write, the
\* clicks and the update cycle.
NextSort ==
  \/ \E v \in TypeValues : SetType(v)
  \/ \E v \in BOOLEAN : SetSortable(v)
  \/ \E v \in BOOLEAN : SetSorted(v)
  \/ \E v \in BOOLEAN : SetSortedDescending(v)
  \/ \E v \in BOOLEAN : SetWithSortButton(v)
  \/ \E v \in BOOLEAN : SetFilterable(v)
  \/ HeaderClick
  \/ SortButtonClick
  \/ PerformUpdate

SpecSort == Init /\ [][NextSort]_vars

\* The same, with an owner that never writes withSortButton itself.
NextDerived ==
  \/ \E v \in TypeValues : SetType(v)
  \/ \E v \in BOOLEAN : SetSortable(v)
  \/ \E v \in BOOLEAN : SetSorted(v)
  \/ \E v \in BOOLEAN : SetSortedDescending(v)
  \/ \E v \in BOOLEAN : SetFilterable(v)
  \/ HeaderClick
  \/ SortButtonClick
  \/ PerformUpdate

SpecDerived == Init /\ [][NextDerived]_vars

\* The user's gestures as the event loop delivers them: a pending update
\* cycle runs as a microtask, before the next click is dispatched.
UserHeaderClick == ~isUpdatePending /\ HeaderClick

UserSortButtonClick == ~isUpdatePending /\ SortButtonClick

\* Owner writes at any time (also from a listener, before the cycle that a
\* gesture has scheduled), gestures between the cycles only.
NextTasks ==
  \/ \E v \in TypeValues : SetType(v)
  \/ \E v \in BOOLEAN : SetSortable(v)
  \/ \E v \in BOOLEAN : SetSorted(v)
  \/ \E v \in BOOLEAN : SetSortedDescending(v)
  \/ \E v \in BOOLEAN : SetFilterable(v)
  \/ UserHeaderClick
  \/ UserSortButtonClick
  \/ PerformUpdate

SpecTasks == Init /\ [][NextTasks]_vars

\* One owner write or one gesture at a time: the next comes when the cycles
\* that the last one scheduled have run.  The update cycle is a microtask,
\* and a scheduled microtask always runs.
OwnerSetsType(v) == ~isUpdatePending /\ SetType(v)

OwnerSetsSortable(v) == ~isUpdatePending /\ SetSortable(v)

OwnerSetsSorted(v) == ~isUpdatePending /\ SetSorted(v)

OwnerSetsSortedDescending(v) == ~isUpdatePending /\ SetSortedDescending(v)

OwnerSetsWithSortButton(v) == ~isUpdatePending /\ SetWithSortButton(v)

OwnerSetsFilterable(v) == ~isUpdatePending /\ SetFilterable(v)

OwnerSetsFilterCaseSensitive(v) == ~isUpdatePending /\ SetFilterCaseSensitive(v)

NextQuiesce ==
  \/ \E v \in TypeValues : OwnerSetsType(v)
  \/ \E v \in BOOLEAN : OwnerSetsSortable(v)
  \/ \E v \in BOOLEAN : OwnerSetsSorted(v)
  \/ \E v \in BOOLEAN : OwnerSetsSortedDescending(v)
  \/ \E v \in BOOLEAN : OwnerSetsWithSortButton(v)
  \/ \E v \in BOOLEAN : OwnerSetsFilterable(v)
  \/ \E v \in BOOLEAN : OwnerSetsFilterCaseSensitive(v)
  \/ UserHeaderClick
  \/ UserSortButtonClick
  \/ PerformUpdate

SpecQuiesce == Init /\ [][NextQuiesce]_vars /\ WF_vars(PerformUpdate)

\* The checkbox column.
NextCheckbox ==
  \/ \E v \in TypeValues : SetType(v)
  \/ \E s \in SlotContents : AssignCheckboxSlot(s)
  \/ \E c \in Checkboxes, v \in CheckedValues : CheckboxChange(c, v)
  \/ PerformUpdate

SpecCheckbox == Init /\ [][NextCheckbox]_vars

\* The filter field.
NextFilter ==
  \/ \E v \in TypeValues : SetType(v)
  \/ \E v \in BOOLEAN : SetFilterable(v)
  \/ \E v \in BOOLEAN : SetFilterCaseSensitive(v)
  \/ \E t \in TextValues : FilterInput(t)
  \/ \E k \in KeyValues : FilterKeyDown(k)
  \/ PerformUpdate

SpecFilter == Init /\ [][NextFilter]_vars

----------------------------------------------------------------------------
(* Properties. *)

SortEvent(descending) ==
  [name |-> "sort", target |-> "column", bubbles |-> FALSE,
   detail |-> [column |-> "column", isDescending |-> descending]]

\* The events of emitted' that the step has added.
Added == SubSeq(emitted', Len(emitted) + 1, Len(emitted'))

AnyPropertyWrite ==
  \/ \E v \in TypeValues : SetType(v)
  \/ \E v \in BOOLEAN : SetSortable(v)
  \/ \E v \in BOOLEAN : SetSorted(v)
  \/ \E v \in BOOLEAN : SetSortedDescending(v)
  \/ \E v \in BOOLEAN : SetWithSortButton(v)
  \/ \E v \in BOOLEAN : SetFilterable(v)
  \/ \E v \in BOOLEAN : SetFilterCaseSensitive(v)

\* C1, as amended: an update cycle whose changed keys hold sorted (the owner
\* has set sorted to a value other than the one it had) ends with
\* withSortButton equal to (sortable AND sorted); and every write of sorted
\* that changes its value puts sorted among the changed keys of a pending
\* cycle.
C1_RecomputedWhenSortedChanged ==
  [][/\ (PerformUpdate /\ "sorted" \in changedProperties)
          => withSortButton' = (sortable' /\ sorted')
     /\ (\E v \in BOOLEAN : v # sorted /\ SetSorted(v))
          => ("sorted" \in changedProperties' /\ isUpdatePending')]_vars

\* C1, as claimed: after the owner sets sorted to any value, the one it has
\* included, and the update cycle is complete, withSortButton equals
\* (sortable AND sorted).  Setting sorted to the value it has changes
\* nothing and schedules no cycle, in whatever state it is done; so the claim
\* says of every state with no update pending that withSortButton equals
\* (sortable AND sorted) there.
C1_RecomputedOnAnyWrite ==
  (~isUpdatePending /\ ENABLED SetSorted(sorted))
    => withSortButton = (sortable /\ sorted)

\* A cycle has just handled a change of sorted on a sortable column: it
\* rendered the toggle hidden, then set the flag, which is the one change
\* left for the next cycle.
C1_Witness ==
  /\ isUpdatePending /\ changedProperties = {"withSortButton"}
  /\ sortable /\ sorted /\ withSortButton
  /\ dom.sortButton /\ dom.hidden

\* C2: in every reachable state, withSortButton is true only if sortable is.
C2_WithSortButtonOnlyIfSortable == withSortButton => sortable

\* C3: a click on the header outside the sort toggle negates withSortButton,
\* and a click on the sort toggle leaves it as it is.
C3_HeaderClickFlipsToggleClickDoesNot ==
  [][/\ HeaderClick => withSortButton' = ~withSortButton
     /\ SortButtonClick => withSortButton' = withSortButton]_vars

\* The toggle has been clicked into the pressed state with no update run
\* since, and the flag it is shown by still stands.
C3_Witness ==
  /\ dom.sortButton /\ dom.selected /\ ~dom.committedSelected
  /\ withSortButton /\ ~dom.hidden
  /\ "withSortButton" \notin changedProperties

\* C4: a change of the toggle's pressed state to p sets sortedDescending to p
\* and adds exactly one event, the sort event of this column with
\* isDescending = p; and whatever step adds a sort event, the event's
\* isDescending is the value of sortedDescending after the step.
C4_SortEventMatchesProperty ==
  [][/\ SortButtonClick =>
          /\ sortedDescending' = dom'.selected
          /\ dom'.selected = ~dom.selected
          /\ emitted' = Append(emitted, SortEvent(dom'.selected))
     /\ \A i \in 1..Len(Added) :
          Added[i].name = "sort"
            => Added[i].detail.isDescending = sortedDescending']_vars

\* A release of the toggle has been reported after a press: two sort events,
\* the later one ascending, as the property is.
C4_Witness ==
  /\ Len(emitted) = 2
  /\ emitted[1] = SortEvent(TRUE)
  /\ emitted[2] = SortEvent(FALSE)
  /\ ~sortedDescending

CheckedEvent(target, value) ==
  [name |-> "checked", target |-> target, bubbles |-> FALSE,
   detail |-> [checked |-> value]]

\* C6: when the effective checkbox of a rendered checkbox column reports a
\* change, be it the default checkbox or one the owner has put in the slot,
\* exactly one event is added: a checked event dispatched on the column.
C6_ColumnEmitsOneCheckedPerChange ==
  [][\A c \in Checkboxes, v \in CheckedValues :
       (CheckboxChange(c, v) /\ type = "checkbox" /\ c = checkbox(dom, slotted))
         => /\ Len(Added) = 1
            /\ Added[1].name = "checked"
            /\ Added[1].target = "column"]_vars

\* C7: once the replacement of the slotted checkbox by another element has
\* been handled, the checkbox that was effective before no longer carries
\* the listener; of the elements the owner has had in the slot, at most one
\* carries it at any time; and a change on one that is not the effective
\* checkbox adds no event.
C7_ListenerLeavesReplacedCheckbox ==
  [][/\ \A s \in SlotContents :
          (/\ AssignCheckboxSlot(s)
           /\ dom.checkbox /\ slotted # <<>> /\ s # <<>>
           /\ s[1] # slotted[1])
            => slotted[1] \notin changeListeners'
     /\ Cardinality(changeListeners' \cap OwnerCheckboxes) <= 1
     /\ \A c \in OwnerCheckboxes, v \in CheckedValues :
          (CheckboxChange(c, v) /\ dom.checkbox /\ c # checkbox(dom, slotted))
            => emitted' = emitted]_vars

\* C8: every event a checkbox change adds is a checked event whose checked
\* is the value the checkbox reports if that is true or false, and false if
\* it is undefined.
C8_CheckedNormalised ==
  [][\A c \in Checkboxes, v \in CheckedValues :
       CheckboxChange(c, v) =>
         \A i \in 1..Len(Added) :
           /\ Added[i].name = "checked"
           /\ Added[i].detail.checked = (IF v \in {"true", "false"} THEN v ELSE "false")
           /\ Added[i].detail.checked \in {"true", "false"}]_vars

\* The default checkbox reports an undefined value, and the column has
\* dispatched checked = false for it.
C8_Witness ==
  /\ checkboxChecked[DefaultCheckbox] = "undefined"
  /\ emitted # <<>>
  /\ emitted[Len(emitted)] = CheckedEvent("column", "false")

FilterEvent(text, caseSensitive) ==
  [name |-> "filter", target |-> "column", bubbles |-> FALSE,
   detail |-> [field |-> "md-outlined-text-field", text |-> text,
               column |-> "column", caseSensitive |-> caseSensitive]]

\* C9: an input in the filter field adds exactly one event, the filter event
\* with the field's text and caseSensitive equal to filterCaseSensitive as it
\* is at that step; no step alters or removes an event dispatched before.
C9_CaseSensitiveAsAtEmission ==
  [][/\ \A t \in TextValues :
          FilterInput(t) => emitted' = Append(emitted, FilterEvent(t, filterCaseSensitive))
     /\ \A i \in 1..Len(Added) :
          Added[i].name = "filter"
            => Added[i].detail.caseSensitive = filterCaseSensitive'
     /\ Len(emitted') >= Len(emitted)
     /\ SubSeq(emitted', 1, Len(emitted)) = emitted]_vars

\* "abc" was typed under filterCaseSensitive = true, then the owner set it
\* to false and "abc" was typed again: the first event still says true, the
\* second says false.
C9_Witness ==
  /\ emitted = <<FilterEvent("abc", TRUE), FilterEvent("abc", FALSE)>>
  /\ ~filterCaseSensitive

\* C10: once the update cycle has run, the filter field is rendered iff
\* filterable is true and type is not checkbox; the filter field and the
\* checkbox are never rendered together.
C10_FilterRenderedIffFilterableNotCheckbox ==
  /\ ~isUpdatePending => (dom.filter <=> (filterable /\ type # "checkbox"))
  /\ ~(dom.filter /\ dom.checkbox)

\* A filterable, sortable checkbox column has been rendered: the checkbox is
\* there, the filter field is not.
C10_Witness ==
  /\ ~isUpdatePending
  /\ filterable /\ type = "checkbox" /\ sortable /\ withSortButton
  /\ dom.checkbox /\ ~dom.filter

\* C11: once the update cycle has run, the checkbox is rendered iff type is
\* checkbox, whatever filterable, sortable and the runtime flags are.
C11_CheckboxRenderedIffTypeCheckbox ==
  ~isUpdatePending => (dom.checkbox <=> type = "checkbox")

\* A filterable, sortable, sorted checkbox column with its toggle pressed has
\* been rendered with the checkbox.
C11_Witness ==
  /\ ~isUpdatePending
  /\ type = "checkbox" /\ filterable /\ sortable /\ sorted /\ sortedDescending
  /\ dom.checkbox /\ dom.sortButton /\ dom.selected

\* C12: when no update is left to run, the sort toggle exists iff sortable
\* is true, and an existing toggle is visible exactly when withSortButton is
\* true and is pressed exactly when sortedDescending is true.
C12_ToggleReflectsProperties ==
  ~isUpdatePending =>
    /\ dom.sortButton <=> sortable
    /\ dom.sortButton => /\ ~dom.hidden <=> withSortButton
                         /\ dom.selected <=> sortedDescending

\* C13: every event the column has dispatched is a bubbling event.
C13_EveryEventBubbles ==
  \A i \in 1..Len(emitted) : emitted[i].bubbles

C15_VisibleWhileSorted ==
  [][/\ (PerformUpdate /\ "sorted" \in changedProperties /\ sortable /\ sorted)
          => withSortButton'
     /\ (sortable /\ sorted /\ withSortButton /\ sortable' /\ sorted')
          => withSortButton'
     /\ (PerformUpdate /\ "sorted" \in changedProperties /\ ~sorted)
          => ~withSortButton']_vars

\* C15, as amended: the same, except that a header click negates
\* withSortButton also while the column is sorted.
C15_VisibleWhileSortedUntilHeaderClick ==
  [][/\ (PerformUpdate /\ "sorted" \in changedProperties /\ sortable /\ sorted)
          => withSortButton'
     /\ (sortable /\ sorted /\ withSortButton /\ sortable' /\ sorted'
           /\ ~HeaderClick)
          => withSortButton'
     /\ (HeaderClick /\ sortable /\ sorted /\ withSortButton) => ~withSortButton'
     /\ (PerformUpdate /\ "sorted" \in changedProperties /\ ~sorted)
          => ~withSortButton']_vars

\* On a sortable, sorted column the toggle has been pressed and the cycles
\* have run: the control is still shown, pressed.
C15_Witness ==
  /\ ~isUpdatePending
  /\ sortable /\ sorted /\ withSortButton /\ sortedDescending
  /\ dom.sortButton /\ ~dom.hidden /\ dom.selected
  /\ emitted = <<SortEvent(TRUE)>>

\* A step taken by the component itself: a handler or an update cycle.
ComponentStep ==
  \/ HeaderClick
  \/ SortButtonClick
  \/ PerformUpdate
  \/ \E t \in SlotContents : AssignCheckboxSlot(t)
  \/ \E c \in Checkboxes, v \in CheckedValues : CheckboxChange(c, v)
  \/ \E t \in TextValues : FilterInput(t)
  \/ \E k \in KeyValues : FilterKeyDown(k)

\* C16: no handler and no update cycle writes sorted, sortable, type,
\* filterable or filterCaseSensitive; a header click leaves sortedDescending
\* as it is, a change of the sort toggle leaves withSortButton as it is, and
\* of the properties an update cycle writes withSortButton alone.
C16_ComponentWritesOnlyItsOwnState ==
  [][/\ ComponentStep =>
          UNCHANGED <<sorted, sortable, type, filterable, filterCaseSensitive>>
     /\ HeaderClick => sortedDescending' = sortedDescending
     /\ SortButtonClick => withSortButton' = withSortButton
     /\ PerformUpdate => sortedDescending' = sortedDescending]_vars

\* On a sorted, sortable, filterable numeric column the toggle has been
\* pressed and the header clicked, and the cycles have run: what the owner
\* set stands, the toggle's press is in sortedDescending, the click's
\* negation in withSortButton.
C16_Witness ==
  /\ ~isUpdatePending
  /\ type = "numeric" /\ filterable /\ sortable /\ sorted
  /\ sortedDescending /\ ~withSortButton
  /\ dom.sortButton /\ dom.hidden /\ dom.selected
  /\ emitted = <<SortEvent(TRUE)>>

\* C17: once a change of the checkbox slot's content has been handled, the
\* effective checkbox carries the column's change listener exactly once,
\* however many changes have been handled with that checkbox effective; and
\* when there is no effective checkbox the listeners stay as they are and
\* nothing is dispatched.
C17_SlotChangeWiresExactlyOnce ==
  [][\A s \in SlotContents :
       AssignCheckboxSlot(s) =>
         /\ dom.checkbox => Len(changeHandlers(checkbox(dom, s)))' = 1
         /\ checkbox(dom, s) = "undefined" =>
               changeListeners' = changeListeners /\ emitted' = emitted]_vars

\* C18: an update cycle leaves at most withSortButton among the changed
\* properties, and schedules a further cycle only by the write of updated(),
\* which it makes only when sorted is among the changed properties; the
\* further cycle therefore writes nothing and schedules nothing; and
\* whenever an update is pending, the component comes to a state with none
\* pending.
C18_UpdateLoopQuiesces ==
  /\ [][PerformUpdate =>
          /\ changedProperties' \subseteq {"withSortButton"}
          /\ isUpdatePending' <=> changedProperties' # {}
          /\ isUpdatePending' =>
                "sorted" \in changedProperties /\ withSortButton' # withSortButton
          /\ "sorted" \notin changedProperties =>
                UNCHANGED props /\ ~isUpdatePending']_vars
  /\ isUpdatePending ~> ~isUpdatePending

\* The owner has made the column sortable and then sorted; the cycle after
\* the second write has shown the control, and the cycle that write
\* scheduled has run: nothing is pending and nothing is left to change.
C18_Witness ==
  /\ ~isUpdatePending /\ changedProperties = {}
  /\ type = "" /\ ~filterable /\ ~filterCaseSensitive
  /\ sortable /\ sorted /\ ~sortedDescending /\ withSortButton
  /\ dom.sortButton /\ ~dom.hidden /\ ~dom.selected
  /\ emitted = <<>>

====
